---- MODULE Spec2Model ----
(***************************************************************************)
(* Connection pool of MeteoAPI (app/database/connection_pool.py) and the   *)
(* two pool registries (PooledDatabaseManager, DatabaseManager).           *)
(*                                                                         *)
(* Every worker thread is a process whose position inside get_connection,  *)
(* return_connection or close_all is pc[t]; one step is one statement (or  *)
(* one critical section) of the code, so that the interleavings of the     *)
(* lock-free queue operations with the lock-protected counter are explored.*)
(* The clock is time.time() in whole seconds; the 0.1 s back-off is        *)
(* shorter than a clock unit, so a sleep may end with or without a tick.   *)
(* The server and the network are the environment: whether a session is    *)
(* still alive is chosen anew at each validation and at each rollback.     *)
(***************************************************************************)
EXTENDS Integers, Sequences, FiniteSets, TLC

\* ---- bounds of the model (configuration scaled down) ----
MaxConnections == 2
MinConnections == 1
MaxIdleTime == 0
MaxTime == 1
MaxTimeout == 1
NumConns == 3

Threads == {"t1", "t2"}
Conns == 1..NumConns
Timeouts == 0..MaxTimeout
NoConn == 0
NoTime == -1
NoThread == "none"

MaxPools == 3
Names == {"local", "sensor"}
RPools == 1..MaxPools
NoPool == 0

VARIABLES
    pool,               \* self._pool: queue.Queue(maxsize=max_connections)
    active_connections, \* self._active_connections
    connection_times,   \* self._connection_times: id(connection) -> time
    closed,             \* self._closed
    lock,               \* self._lock: the thread that owns it, or NoThread
    cstate,             \* each connection object: "none", "open", or "closed" by the pool
    now,                \* time.time()
    pc,                 \* position of each thread
    connection,         \* local variable `connection` of the running call
    start_time,         \* local variable `start_time` of get_connection
    timeout,            \* argument `timeout` of get_connection
    held,               \* connections each caller has acquired and not released
    outcome,            \* how the last call of each thread ended
    txn,                \* each connection: it carries uncommitted work (autocommit=False)
    init_i,             \* _initialize_pool: iterations of its loop done so far
    cur,                \* each thread's position and locals inside cursor()
    obs,                \* observer of a serial run: what the running call started from
    stats,              \* each thread's get_stats call: the values read so far
    pdm_instances,      \* PooledDatabaseManager._instances
    pdm_lock,           \* PooledDatabaseManager._lock
    dm_pooled_instances,\* DatabaseManager._pooled_instances
    rpool_name,         \* logical name each PooledDatabaseConnection was built for
    rpool_mgr,          \* registry class that built it
    rpool_closed,       \* its pool's _closed flag
    rpc,                \* position of each thread inside a registry call
    rname,              \* logical name of the running registry call
    rresult,            \* instance the last get_*_db call returned
    routcome,           \* how the last registry call ended
    riter               \* dict iterator of DatabaseManager.close_all

poolvars == <<pool, active_connections, connection_times, closed, lock, cstate, now,
              pc, connection, start_time, timeout, held, outcome, txn, init_i, cur,
              obs, stats>>

regvars == <<pdm_instances, pdm_lock, dm_pooled_instances, rpool_name, rpool_mgr,
             rpool_closed, rpc, rname, rresult, routcome, riter>>

vars == <<poolvars, regvars>>

shared == <<pool, active_connections, connection_times, closed, lock, cstate>>

\* ---- helpers ----
\* no thread is inside cursor()
NoCursor ==
    [pc |-> "none", conn |-> NoConn, work |-> "none", orig |-> "none",
     exc |-> "none", late |-> FALSE, committed |-> FALSE, rolled |-> FALSE,
     rel |-> 0]

\* the observer switched off: it records nothing
NoObs ==
    [on |-> FALSE, phase |-> "none", pre_active |-> 0, pre_idle |-> 0,
     pre_pool |-> {}, discarded |-> 0, aged |-> FALSE, created |-> FALSE,
     new |-> NoConn, conn |-> NoConn, pre_closed |-> FALSE, made |-> 0,
     failed |-> 0]

\* no get_stats call made: nothing read; `at` is the state of the pool at the
\* moment a call reads the queue size
NoStats ==
    [active_connections |-> 0, available_connections |-> 0, pool_closed |-> FALSE,
     at |-> <<0, 0, FALSE>>]

RECURSIVE SeqToSet(_)
SeqToSet(s) == IF s = <<>> THEN {} ELSE {Head(s)} \cup SeqToSet(Tail(s))

Referenced(c) ==
    \/ c \in SeqToSet(pool)
    \/ \E t \in Threads : c \in held[t] \/ connection[t] = c

\* Objects a new pymysql.Connection can be (an unreferenced object's id is reusable).
FreeConns == {c \in Conns : ~Referenced(c)}

FreshConn == CHOOSE c \in FreeConns : \A d \in FreeConns : c <= d

\* _is_connection_valid, line 108
IdleTimeOf(c) == now - connection_times[c]

\* mutant: the idle age is compared one second too late
IsStaleOffByOne(c) ==
    connection_times[c] # NoTime /\ IdleTimeOf(c) > MaxIdleTime + 1

\* _is_connection_valid, line 109
IsStale(c) == connection_times[c] # NoTime /\ IdleTimeOf(c) > MaxIdleTime

\* _is_connection_valid: `alive` is what the driver reports at that moment, the
\* session still open (line 99) and answering the ping (line 103, an exception
\* counts as invalid); then the idle age (lines 106-111)
is_connection_valid(c, alive) == cstate[c] = "open" /\ alive /\ ~IsStale(c)

\* _close_connection: forget the timestamp, close the session; never raises
close_connection_times(c) == [connection_times EXCEPT ![c] = NoTime]
close_connection_cstate(c) == [cstate EXCEPT ![c] = "closed"]

\* _close_connection, lines 126-127: the server drops the uncommitted work of a
\* session that is closed
close_connection_txn(c) == [txn EXCEPT ![c] = FALSE]

\* mutant: return_connection puts the connection back without the rollback
RollbackSkipped(c) == txn

\* return_connection, lines 196-197: connection.rollback() succeeded
RolledBack(c) == [txn EXCEPT ![c] = FALSE]

\* the observer between two calls
ObsReset == [NoObs EXCEPT !.on = obs.on, !.made = obs.made, !.failed = obs.failed]

\* the observer records only where it is switched on
Observe(o) == IF obs.on THEN o ELSE obs

\* mutant: put() drops the connection instead of queueing it
PoolAfterPutDropped(c) == pool

\* what self._pool.put(connection, block=False) leaves in the queue, line 199
PoolAfterPut(c) == Append(pool, c)

\* mutant: the discard forgets the counter
ActiveAfterDiscardKept == active_connections

\* self._active_connections -= 1, lines 163, 204 and 210
ActiveAfterDiscard == active_connections - 1

\* mutant: close_all leaves the timestamps of the leased connections behind
TimesNotCleared == connection_times

\* self._connection_times.clear(), line 230
ClearedTimes == [c \in Conns |-> NoTime]

\* mutant: return_connection does not look at the closed flag
ReleaseIgnoresClosed == FALSE

\* the closed check of return_connection, line 188
ReleaseSeesClosed == closed

\* mutant: get() hands out the head of the queue without removing it
PoolAfterGetKeepsHead == pool

\* what self._pool.get(block=False) leaves in the queue, line 153
PoolAfterGet == Tail(pool)

\* mutant: get_connection does not look at the closed flag
GetIgnoresClosed == FALSE

\* the closed check of get_connection, line 145
GetSeesClosed == closed

\* mutant: the capacity check is off by one
HasCapacityOffByOne == active_connections <= MaxConnections

\* the capacity check of get_connection, line 170
HasCapacity == active_connections < MaxConnections

\* mutant: the critical sections are entered without waiting for the lock
LockNotTaken(t) == TRUE

\* `with self._lock:` can be entered by t
LockFree(t) == lock = NoThread

\* mutant: the loop gives up one second early
WithinTimeoutShort(t) == now - start_time[t] < timeout[t] - 1

\* the loop condition of get_connection, line 150
WithinTimeout(t) == now - start_time[t] < timeout[t]

\* ConnectionPool.__init__ + _initialize_pool with k successful creations at time 0
InitPool(k) ==
    /\ pool = [i \in 1..k |-> i]
    /\ active_connections = k
    /\ connection_times = [c \in Conns |-> IF c <= k THEN 0 ELSE NoTime]
    /\ cstate = [c \in Conns |-> IF c <= k THEN "open" ELSE "none"]
    /\ closed = FALSE
    /\ lock = NoThread

InitThreads ==
    /\ now = 0
    /\ pc = [t \in Threads |-> "idle"]
    /\ connection = [t \in Threads |-> NoConn]
    /\ start_time = [t \in Threads |-> 0]
    /\ timeout = [t \in Threads |-> 0]
    /\ held = [t \in Threads |-> {}]
    /\ outcome = [t \in Threads |-> "none"]

\* class attributes of the two registries before any call
InitRegistry ==
    /\ pdm_instances = [n \in Names |-> NoPool]
    /\ pdm_lock = NoThread
    /\ dm_pooled_instances = [n \in Names |-> NoPool]
    /\ rpool_name = [p \in RPools |-> "none"]
    /\ rpool_mgr = [p \in RPools |-> "none"]
    /\ rpool_closed = [p \in RPools |-> FALSE]
    /\ rpc = [t \in Threads |-> "idle"]
    /\ rname = [t \in Threads |-> "none"]
    /\ rresult = [t \in Threads |-> NoPool]
    /\ routcome = [t \in Threads |-> "none"]
    /\ riter = [t \in Threads |-> [size |-> 0, seen |-> {}]]

\* the constructor has returned, nobody uses cursor(), nothing is observed
InitCallers ==
    /\ txn = [c \in Conns |-> FALSE]
    /\ init_i = MinConnections
    /\ cur = [t \in Threads |-> NoCursor]
    /\ stats = [t \in Threads |-> NoStats]

Init ==
    /\ \E k \in 0..MinConnections : InitPool(k)
    /\ InitThreads
    /\ InitCallers
    /\ obs = NoObs
    /\ InitRegistry

\* a call ends: locals are dropped
Finish(t, result) ==
    /\ pc' = [pc EXCEPT ![t] = "idle"]
    /\ outcome' = [outcome EXCEPT ![t] = result]
    /\ connection' = [connection EXCEPT ![t] = NoConn]
    /\ start_time' = [start_time EXCEPT ![t] = 0]
    /\ timeout' = [timeout EXCEPT ![t] = 0]

Goto(t, label) == pc' = [pc EXCEPT ![t] = label]

\* ---- callers ----
call_get_connection(t) ==
    /\ pc[t] = "idle"
    /\ \E tmo \in Timeouts : timeout' = [timeout EXCEPT ![t] = tmo]
    /\ Goto(t, "g_entry")
    /\ outcome' = [outcome EXCEPT ![t] = "none"]
    /\ UNCHANGED <<shared, now, connection, start_time, held>>
    /\ obs' = Observe([ObsReset EXCEPT !.phase = "acquire",
                                        !.pre_active = active_connections,
                                        !.pre_idle = Len(pool)])
    /\ UNCHANGED txn
    /\ UNCHANGED <<regvars, init_i, cur, stats>>

call_return_connection(t) ==
    /\ pc[t] = "idle"
    /\ \E c \in held[t] :
          /\ held' = [held EXCEPT ![t] = @ \ {c}]
          /\ connection' = [connection EXCEPT ![t] = c]
    /\ Goto(t, "r_entry")
    /\ outcome' = [outcome EXCEPT ![t] = "none"]
    /\ UNCHANGED <<shared, now, start_time, timeout>>
    /\ obs' = Observe(IF obs.phase = "acquired" /\ connection'[t] = obs.conn
                          THEN [obs EXCEPT !.phase = "release"]
                          ELSE ObsReset)
    /\ UNCHANGED txn
    /\ UNCHANGED <<regvars, init_i, cur, stats>>

call_close_all(t) ==
    /\ pc[t] = "idle"
    /\ Goto(t, "c_lock")
    /\ outcome' = [outcome EXCEPT ![t] = "none"]
    /\ UNCHANGED <<shared, now, connection, start_time, timeout, held>>
    /\ obs' = Observe([ObsReset EXCEPT !.phase = "close",
                                        !.pre_active = active_connections,
                                        !.pre_idle = Len(pool),
                                        !.pre_pool = SeqToSet(pool),
                                        !.pre_closed = closed])
    /\ UNCHANGED txn
    /\ UNCHANGED <<regvars, init_i, cur, stats>>

\* ---- get_connection ----
\* lines 145-148
get_connection_entry(t) ==
    /\ pc[t] = "g_entry"
    /\ IF GetSeesClosed
          THEN /\ Finish(t, "closed")
          ELSE /\ start_time' = [start_time EXCEPT ![t] = now]
               /\ Goto(t, "g_loop")
               /\ UNCHANGED <<connection, timeout, outcome>>
    /\ UNCHANGED <<shared, now, held>>
    /\ obs' = Observe(IF GetSeesClosed THEN ObsReset ELSE obs)
    /\ UNCHANGED txn
    /\ UNCHANGED <<regvars, init_i, cur, stats>>

\* line 150, and line 184 when the loop ends
get_connection_loop(t) ==
    /\ pc[t] = "g_loop"
    /\ IF WithinTimeout(t)
          THEN /\ Goto(t, "g_pop")
               /\ UNCHANGED <<connection, start_time, timeout, outcome>>
          ELSE Finish(t, "timeout")
    /\ UNCHANGED <<shared, now, held>>
    /\ obs' = Observe(IF WithinTimeout(t) THEN obs ELSE ObsReset)
    /\ UNCHANGED txn
    /\ UNCHANGED <<regvars, init_i, cur, stats>>

\* line 153: self._pool.get(block=False)
get_connection_pop(t) ==
    /\ pc[t] = "g_pop"
    /\ IF pool # <<>>
          THEN /\ connection' = [connection EXCEPT ![t] = Head(pool)]
               /\ pool' = PoolAfterGet
               /\ Goto(t, "g_valid")
          ELSE /\ Goto(t, "g_lock")
               /\ UNCHANGED <<pool, connection>>
    /\ UNCHANGED <<active_connections, connection_times, closed, lock, cstate, now,
                   start_time, timeout, held, outcome>>
    /\ UNCHANGED <<obs, txn>>
    /\ UNCHANGED <<regvars, init_i, cur, stats>>

\* line 156: self._is_connection_valid(connection)
get_connection_validate(t) ==
    /\ pc[t] = "g_valid"
    /\ \E alive \in BOOLEAN :
          IF is_connection_valid(connection[t], alive)
             THEN Goto(t, "g_stamp")
             ELSE Goto(t, "g_decr")
    /\ UNCHANGED <<shared, now, connection, start_time, timeout, held, outcome>>
    /\ obs' = Observe([obs EXCEPT !.aged = @ \/ IsStale(connection[t])])
    /\ UNCHANGED txn
    /\ UNCHANGED <<regvars, init_i, cur, stats>>

\* lines 158-159: stamp and return the idle connection
get_connection_stamp(t) ==
    /\ pc[t] = "g_stamp"
    /\ connection_times' = [connection_times EXCEPT ![connection[t]] = now]
    /\ held' = [held EXCEPT ![t] = @ \cup {connection[t]}]
    /\ Finish(t, "conn")
    /\ UNCHANGED <<pool, active_connections, closed, lock, cstate, now>>
    /\ obs' = Observe([obs EXCEPT !.phase = "acquired", !.conn = connection[t]])
    /\ UNCHANGED txn
    /\ UNCHANGED <<regvars, init_i, cur, stats>>

\* lines 162-163: with self._lock: self._active_connections -= 1
get_connection_discard(t) ==
    /\ pc[t] = "g_decr"
    /\ LockFree(t)
    /\ active_connections' = ActiveAfterDiscard
    /\ Goto(t, "g_close")
    /\ UNCHANGED <<pool, connection_times, closed, lock, cstate, now,
                   connection, start_time, timeout, held, outcome>>
    /\ obs' = Observe([obs EXCEPT !.discarded = @ + 1])
    /\ UNCHANGED txn
    /\ UNCHANGED <<regvars, init_i, cur, stats>>

\* lines 164-165: self._close_connection(connection); continue
get_connection_close(t) ==
    /\ pc[t] = "g_close"
    /\ connection_times' = close_connection_times(connection[t])
    /\ cstate' = close_connection_cstate(connection[t])
    /\ connection' = [connection EXCEPT ![t] = NoConn]
    /\ Goto(t, "g_loop")
    /\ UNCHANGED <<pool, active_connections, closed, lock, now,
                   start_time, timeout, held, outcome>>
    /\ txn' = close_connection_txn(connection[t])
    /\ UNCHANGED obs
    /\ UNCHANGED <<regvars, init_i, cur, stats>>

\* lines 169-170 and 179: enter the lock and check the capacity
get_connection_lock(t) ==
    /\ pc[t] = "g_lock"
    /\ LockFree(t)
    /\ lock' = t
    /\ IF HasCapacity THEN Goto(t, "g_create") ELSE Goto(t, "g_sleep")
    /\ UNCHANGED <<pool, active_connections, connection_times, closed, cstate, now,
                   connection, start_time, timeout, held, outcome>>
    /\ UNCHANGED <<obs, txn>>
    /\ UNCHANGED <<regvars, init_i, cur, stats>>

\* line 172: self._create_connection() succeeds (lines 60-78)
get_connection_create(t) ==
    /\ pc[t] = "g_create"
    /\ FreeConns # {}
    /\ cstate' = [cstate EXCEPT ![FreshConn] = "open"]
    /\ connection_times' = [connection_times EXCEPT ![FreshConn] = now]
    /\ connection' = [connection EXCEPT ![t] = FreshConn]
    /\ Goto(t, "g_incr")
    /\ UNCHANGED <<pool, active_connections, closed, lock, now,
                   start_time, timeout, held, outcome>>
    /\ txn' = [txn EXCEPT ![FreshConn] = FALSE]
    /\ obs' = Observe([obs EXCEPT !.created = TRUE, !.new = FreshConn])
    /\ UNCHANGED <<regvars, init_i, cur, stats>>

\* mutant: the error of a failed creation leaves get_connection
get_connection_create_fail_raises(t) ==
    /\ pc[t] = "g_create"
    /\ lock' = NoThread
    /\ Finish(t, "error")
    /\ UNCHANGED <<pool, active_connections, connection_times, closed, cstate, now,
                   held>>
    /\ UNCHANGED <<obs, txn>>
    /\ UNCHANGED <<regvars, init_i, cur, stats>>

\* line 172 raises (lines 80-82), caught at line 175
get_connection_create_fail(t) ==
    /\ pc[t] = "g_create"
    /\ Goto(t, "g_sleep")
    /\ UNCHANGED <<shared, now, connection, start_time, timeout, held,
                   outcome>>
    /\ UNCHANGED <<obs, txn>>
    /\ UNCHANGED <<regvars, init_i, cur, stats>>

\* lines 173-174: count the new connection, leave the lock, return it
get_connection_incr(t) ==
    /\ pc[t] = "g_incr"
    /\ active_connections' = active_connections + 1
    /\ lock' = NoThread
    /\ held' = [held EXCEPT ![t] = @ \cup {connection[t]}]
    /\ Finish(t, "conn")
    /\ UNCHANGED <<pool, connection_times, closed, cstate, now>>
    /\ obs' = Observe([obs EXCEPT !.phase = "acquired", !.conn = connection[t]])
    /\ UNCHANGED txn
    /\ UNCHANGED <<regvars, init_i, cur, stats>>

\* mutant: the lock is still held when the loop goes on
get_connection_sleep_keeps_lock(t) ==
    /\ pc[t] = "g_sleep"
    /\ Goto(t, "g_loop")
    /\ UNCHANGED <<pool, active_connections, connection_times, closed, cstate, now,
                   connection, start_time, timeout, held, outcome, lock>>
    /\ UNCHANGED <<obs, txn>>
    /\ UNCHANGED <<regvars, init_i, cur, stats>>

\* lines 177-178 and 181-182: time.sleep(0.1) inside the lock, then continue
get_connection_sleep(t) ==
    /\ pc[t] = "g_sleep"
    /\ lock' = NoThread
    /\ Goto(t, "g_loop")
    /\ UNCHANGED <<pool, active_connections, connection_times, closed, cstate, now,
                   connection, start_time, timeout, held, outcome>>
    /\ UNCHANGED <<obs, txn>>
    /\ UNCHANGED <<regvars, init_i, cur, stats>>

\* ---- return_connection ----
\* lines 188-190
return_connection_entry(t) ==
    /\ pc[t] = "r_entry"
    /\ IF ReleaseSeesClosed
          THEN /\ connection_times' = close_connection_times(connection[t])
               /\ cstate' = close_connection_cstate(connection[t])
               /\ txn' = close_connection_txn(connection[t])
               /\ obs' = Observe(ObsReset)
               /\ Finish(t, "returned")
          ELSE /\ Goto(t, "r_valid")
               /\ UNCHANGED <<connection_times, cstate, connection, start_time,
                              timeout, outcome, txn, obs>>
    /\ UNCHANGED <<pool, active_connections, closed, lock, now, held>>
    /\ UNCHANGED <<regvars, init_i, cur, stats>>

\* line 193
return_connection_validate(t) ==
    /\ pc[t] = "r_valid"
    /\ \E alive \in BOOLEAN :
          IF is_connection_valid(connection[t], alive)
             THEN Goto(t, "r_put")
             ELSE Goto(t, "r_decr")
    /\ UNCHANGED <<shared, now, connection, start_time, timeout, held,
                   outcome>>
    /\ UNCHANGED <<obs, txn>>
    /\ UNCHANGED <<regvars, init_i, cur, stats>>

\* lines 196-199: rollback, then self._pool.put(connection, block=False)
return_connection_put(t) ==
    /\ pc[t] = "r_put"
    /\ txn' = RolledBack(connection[t])
    /\ IF Len(pool) < MaxConnections
          THEN /\ pool' = PoolAfterPut(connection[t])
               /\ obs' = Observe(IF obs.phase = "release"
                                     THEN [obs EXCEPT !.phase = "roundtrip"]
                                     ELSE ObsReset)
               /\ Finish(t, "returned")
          ELSE /\ Goto(t, "r_decr")
               /\ UNCHANGED <<pool, connection, start_time, timeout,
                              outcome, obs>>
    /\ UNCHANGED <<active_connections, connection_times, closed, lock, cstate, now,
                   held>>
    /\ UNCHANGED <<regvars, init_i, cur, stats>>

\* line 197 raises: connection.rollback() (made when connection.open, line 196)
\* fails on a session that broke after the validation; only queue.Full is caught,
\* so the error leaves return_connection
return_connection_rollback_fail(t) ==
    /\ pc[t] = "r_put"
    /\ cstate[connection[t]] = "open"
    /\ Finish(t, "error")
    /\ UNCHANGED <<shared, now, held>>
    /\ obs' = Observe(ObsReset)
    /\ UNCHANGED txn
    /\ UNCHANGED <<regvars, init_i, cur, stats>>

\* lines 203-204 and 209-210: with self._lock: self._active_connections -= 1
return_connection_discard(t) ==
    /\ pc[t] = "r_decr"
    /\ LockFree(t)
    /\ active_connections' = ActiveAfterDiscard
    /\ Goto(t, "r_close")
    /\ UNCHANGED <<pool, connection_times, closed, lock, cstate, now,
                   connection, start_time, timeout, held, outcome>>
    /\ UNCHANGED <<obs, txn>>
    /\ UNCHANGED <<regvars, init_i, cur, stats>>

\* lines 205 and 211: self._close_connection(connection)
return_connection_close(t) ==
    /\ pc[t] = "r_close"
    /\ connection_times' = close_connection_times(connection[t])
    /\ cstate' = close_connection_cstate(connection[t])
    /\ Finish(t, "returned")
    /\ UNCHANGED <<pool, active_connections, closed, lock, now, held>>
    /\ txn' = close_connection_txn(connection[t])
    /\ obs' = Observe(ObsReset)
    /\ UNCHANGED <<regvars, init_i, cur, stats>>

\* ---- close_all ----
\* lines 218-219
close_all_lock(t) ==
    /\ pc[t] = "c_lock"
    /\ LockFree(t)
    /\ lock' = t
    /\ closed' = TRUE
    /\ Goto(t, "c_drain")
    /\ UNCHANGED <<pool, active_connections, connection_times, cstate, now,
                   connection, start_time, timeout, held, outcome>>
    /\ UNCHANGED <<obs, txn>>
    /\ UNCHANGED <<regvars, init_i, cur, stats>>

\* lines 222-227: one turn of the drain loop
close_all_drain(t) ==
    /\ pc[t] = "c_drain"
    /\ IF pool # <<>>
          THEN /\ connection_times' = close_connection_times(Head(pool))
               /\ cstate' = close_connection_cstate(Head(pool))
               /\ txn' = close_connection_txn(Head(pool))
               /\ pool' = Tail(pool)
               /\ UNCHANGED pc
          ELSE /\ Goto(t, "c_reset")
               /\ UNCHANGED <<pool, connection_times, cstate, txn>>
    /\ UNCHANGED <<active_connections, closed, lock, now,
                   connection, start_time, timeout, held, outcome>>
    /\ UNCHANGED obs
    /\ UNCHANGED <<regvars, init_i, cur, stats>>

\* lines 229-230, leaving the lock
close_all_reset(t) ==
    /\ pc[t] = "c_reset"
    /\ active_connections' = 0
    /\ connection_times' = ClearedTimes
    /\ lock' = NoThread
    /\ Finish(t, "shutdown")
    /\ UNCHANGED <<pool, closed, cstate, now, held>>
    /\ obs' = Observe([obs EXCEPT !.phase = "closed"])
    /\ UNCHANGED txn
    /\ UNCHANGED <<regvars, init_i, cur, stats>>

\* ---- environment ----
\* the clock advances
Tick ==
    /\ now < MaxTime
    /\ now' = now + 1
    /\ UNCHANGED <<shared, pc, connection, start_time, timeout, held,
                   outcome>>
    /\ UNCHANGED <<obs, txn>>
    /\ UNCHANGED <<regvars, init_i, cur, stats>>

AcquireBody(t) ==
    \/ get_connection_loop(t)
    \/ get_connection_pop(t)
    \/ get_connection_validate(t)
    \/ get_connection_stamp(t)
    \/ get_connection_discard(t)
    \/ get_connection_close(t)
    \/ get_connection_lock(t)
    \/ get_connection_create(t)
    \/ get_connection_create_fail(t)
    \/ get_connection_incr(t)
    \/ get_connection_sleep(t)

AcquireStep(t) ==
    \/ get_connection_entry(t)
    \/ AcquireBody(t)

ReleaseStep(t) ==
    \/ return_connection_entry(t)
    \/ return_connection_validate(t)
    \/ return_connection_put(t)
    \/ return_connection_rollback_fail(t)
    \/ return_connection_discard(t)
    \/ return_connection_close(t)

CloseAllStep(t) ==
    \/ close_all_lock(t)
    \/ close_all_drain(t)
    \/ close_all_reset(t)

ThreadStep(t) ==
    \/ call_get_connection(t)
    \/ call_return_connection(t)
    \/ call_close_all(t)
    \/ AcquireStep(t)
    \/ ReleaseStep(t)
    \/ CloseAllStep(t)

Next ==
    \/ \E t \in Threads : ThreadStep(t)
    \/ Tick

Spec == Init /\ [][Next]_vars

\* ---- the pool under fair scheduling ----
\* The clock of the model stops at MaxTime, so a call whose deadline lies beyond
\* it could never time out: under LiveSpec a call gets going only while its
\* deadline is within the modelled horizon.
get_connection_entry_in_horizon(t) ==
    /\ get_connection_entry(t)
    /\ now + timeout[t] <= MaxTime

AcquireStepLive(t) ==
    \/ get_connection_entry_in_horizon(t)
    \/ AcquireBody(t)

NextLive ==
    \/ \E t \in Threads :
          \/ call_get_connection(t)
          \/ call_return_connection(t)
          \/ call_close_all(t)
          \/ AcquireStepLive(t)
          \/ ReleaseStep(t)
          \/ CloseAllStep(t)
    \/ Tick

\* The clock keeps running and a thread inside get_connection keeps being
\* scheduled (a statement that can run is eventually run). Callers are free to
\* stop calling, and nothing is assumed of release and close_all.
LiveSpec ==
    /\ Init
    /\ [][NextLive]_vars
    /\ WF_vars(Tick)
    /\ \A t \in Threads : WF_vars(AcquireStepLive(t))

\* ---- the construction of the pool, and one call at a time ----
\* mutant: a failed creation is counted like a successful one
initialize_pool_create_fail_counted ==
    /\ init_i < MinConnections
    /\ init_i' = init_i + 1
    /\ active_connections' = active_connections + 1
    /\ obs' = Observe([obs EXCEPT !.failed = @ + 1])
    /\ UNCHANGED <<pool, connection_times, closed, lock, cstate, now, pc,
                   connection, start_time, timeout, held, outcome, txn, cur, stats>>
    /\ UNCHANGED regvars

\* _initialize_pool, lines 87-93: one turn of the loop whose creation fails; the
\* error is logged and the loop goes on
initialize_pool_create_fail ==
    /\ init_i < MinConnections
    /\ init_i' = init_i + 1
    /\ obs' = Observe([obs EXCEPT !.failed = @ + 1])
    /\ UNCHANGED <<shared, now, pc, connection, start_time, timeout, held, outcome,
                   txn, cur, stats>>
    /\ UNCHANGED regvars

\* _initialize_pool, lines 87-91: one turn of the loop whose creation succeeds
\* (lines 60-78), put(block=False), then the increment; queue.Full is caught at
\* line 92 like a failed creation. The constructor runs before the pool is
\* visible to any other thread, so the turn is one step.
initialize_pool_create ==
    /\ init_i < MinConnections
    /\ FreeConns # {}
    /\ init_i' = init_i + 1
    /\ cstate' = [cstate EXCEPT ![FreshConn] = "open"]
    /\ connection_times' = [connection_times EXCEPT ![FreshConn] = now]
    /\ txn' = [txn EXCEPT ![FreshConn] = FALSE]
    /\ IF Len(pool) < MaxConnections
          THEN /\ pool' = Append(pool, FreshConn)
               /\ active_connections' = active_connections + 1
               /\ obs' = Observe([obs EXCEPT !.made = @ + 1])
          ELSE /\ obs' = Observe([obs EXCEPT !.failed = @ + 1])
               /\ UNCHANGED <<pool, active_connections>>
    /\ UNCHANGED <<closed, lock, now, pc, connection, start_time, timeout, held,
                   outcome, cur, stats>>
    /\ UNCHANGED regvars

\* ConnectionPool.__init__ has returned and no call is in progress
Quiescent ==
    /\ init_i = MinConnections
    /\ \A u \in Threads : pc[u] = "idle"

serial_call_get_connection(t) == Quiescent /\ call_get_connection(t)

serial_call_return_connection(t) == Quiescent /\ call_return_connection(t)

serial_call_close_all(t) == Quiescent /\ call_close_all(t)

NextSerial ==
    \/ initialize_pool_create
    \/ initialize_pool_create_fail
    \/ \E t \in Threads :
          \/ serial_call_get_connection(t)
          \/ serial_call_return_connection(t)
          \/ serial_call_close_all(t)
          \/ AcquireStep(t)
          \/ ReleaseStep(t)
          \/ CloseAllStep(t)
    \/ Tick

\* ConnectionPool.__init__ up to line 52, before _initialize_pool runs
InitSerial ==
    /\ InitPool(0)
    /\ InitThreads
    /\ txn = [c \in Conns |-> FALSE]
    /\ init_i = 0
    /\ cur = [t \in Threads |-> NoCursor]
    /\ stats = [t \in Threads |-> NoStats]
    /\ obs = [NoObs EXCEPT !.on = TRUE, !.phase = "ctor"]
    /\ InitRegistry

\* The pool from its construction on, used by one call at a time (callers on
\* two threads, but no call starts while another one is in progress).
SpecSerial == InitSerial /\ [][NextSerial]_vars

\* ---- PooledDatabaseConnection.cursor ----
\* cur[t].pc is the thread's position in cursor(); .conn its local `connection`;
\* .work how the body of the caller's with-block ended; .orig the exception of
\* the body or of the commit; .exc the exception now propagating; .late whether
\* a later step (rollback, cursor.close, return_connection) raised; .committed
\* and .rolled whether commit and rollback were issued; .rel the number of
\* return_connection calls. The record is dropped when cursor() is left.

\* get_connection() is called without a timeout: the default of line 132
DefaultTimeout == MaxTimeout

CurGoto(t, label) == cur' = [cur EXCEPT ![t].pc = label]

\* what a thread inside cursor() leaves alone while it works on its session
CursorFrame ==
    /\ UNCHANGED <<shared, now, pc, connection, start_time, timeout, held, outcome,
                   init_i, obs, stats>>
    /\ UNCHANGED regvars

\* lines 265-268: connection = None; self._pool.get_connection()
call_cursor(t) ==
    /\ cur[t].pc = "none"
    /\ pc[t] = "idle"
    /\ held[t] = {}
    /\ cur' = [cur EXCEPT ![t] = [NoCursor EXCEPT !.pc = "w_get"]]
    /\ timeout' = [timeout EXCEPT ![t] = DefaultTimeout]
    /\ Goto(t, "g_entry")
    /\ outcome' = [outcome EXCEPT ![t] = "none"]
    /\ UNCHANGED <<shared, now, connection, start_time, held, txn, init_i, obs,
                   stats>>
    /\ UNCHANGED regvars

\* line 268: get_connection returned a connection, or raised: then `connection`
\* is still None at line 282 and the error reaches the caller
cursor_acquired(t) ==
    /\ cur[t].pc = "w_get"
    /\ pc[t] = "idle"
    /\ IF outcome[t] = "conn"
          THEN cur' = [cur EXCEPT ![t].pc = "w_cursor",
                                  ![t].conn = CHOOSE c \in held[t] : TRUE]
          ELSE cur' = [cur EXCEPT ![t] = NoCursor]
    /\ UNCHANGED txn
    /\ CursorFrame

\* line 269: connection.cursor()
cursor_create(t) ==
    /\ cur[t].pc = "w_cursor"
    /\ CurGoto(t, "w_yield")
    /\ UNCHANGED txn
    /\ CursorFrame

\* mutant: get_connection and connection.cursor() stand before the try, so a
\* failure of cursor() leaves without the release
cursor_create_fail_unreleased(t) ==
    /\ cur[t].pc = "w_cursor"
    /\ cur' = [cur EXCEPT ![t] = NoCursor]
    /\ UNCHANGED txn
    /\ CursorFrame

\* line 269 raises: on to the outer finally
cursor_create_fail(t) ==
    /\ cur[t].pc = "w_cursor"
    /\ cur' = [cur EXCEPT ![t].pc = "w_release", ![t].exc = "cursor"]
    /\ UNCHANGED txn
    /\ CursorFrame

\* line 272: the body of the caller's with-block runs to its end; it may have
\* written (autocommit is off, line 71)
cursor_work(t) ==
    /\ cur[t].pc = "w_yield"
    /\ \E wrote \in BOOLEAN :
          txn' = [txn EXCEPT ![cur[t].conn] = @ \/ wrote]
    /\ cur' = [cur EXCEPT ![t].pc = "w_commit", ![t].work = "ok"]
    /\ CursorFrame

\* line 272: the body raises an Exception (caught at line 274) or another
\* BaseException such as KeyboardInterrupt (not caught: on to line 278)
cursor_work_raises(t) ==
    /\ cur[t].pc = "w_yield"
    /\ \E wrote \in BOOLEAN :
          txn' = [txn EXCEPT ![cur[t].conn] = @ \/ wrote]
    /\ \E kind \in {"raised", "base"} :
          cur' = [cur EXCEPT ![t].pc = IF kind = "raised" THEN "w_rollback"
                                                          ELSE "w_close",
                             ![t].work = kind,
                             ![t].orig = kind,
                             ![t].exc = kind]
    /\ CursorFrame

\* line 273: connection.commit()
cursor_commit(t) ==
    /\ cur[t].pc = "w_commit"
    /\ txn' = [txn EXCEPT ![cur[t].conn] = FALSE]
    /\ cur' = [cur EXCEPT ![t].pc = "w_close", ![t].committed = TRUE]
    /\ CursorFrame

\* line 273 raises, caught at line 274
cursor_commit_fail(t) ==
    /\ cur[t].pc = "w_commit"
    /\ cur' = [cur EXCEPT ![t].pc = "w_rollback", ![t].committed = TRUE,
                          ![t].orig = "commit", ![t].exc = "commit"]
    /\ UNCHANGED txn
    /\ CursorFrame

\* lines 275-276: connection.rollback(); raise e
cursor_rollback(t) ==
    /\ cur[t].pc = "w_rollback"
    /\ txn' = [txn EXCEPT ![cur[t].conn] = FALSE]
    /\ cur' = [cur EXCEPT ![t].pc = "w_close", ![t].rolled = TRUE]
    /\ CursorFrame

\* line 275 raises: line 276 is not reached, the new exception propagates
cursor_rollback_fail(t) ==
    /\ cur[t].pc = "w_rollback"
    /\ cur' = [cur EXCEPT ![t].pc = "w_close", ![t].rolled = TRUE,
                          ![t].exc = "rollback", ![t].late = TRUE]
    /\ UNCHANGED txn
    /\ CursorFrame

\* lines 277-278: cursor.close()
cursor_close(t) ==
    /\ cur[t].pc = "w_close"
    /\ CurGoto(t, "w_release")
    /\ UNCHANGED txn
    /\ CursorFrame

\* line 278 raises
cursor_close_fail(t) ==
    /\ cur[t].pc = "w_close"
    /\ cur' = [cur EXCEPT ![t].pc = "w_release", ![t].exc = "close",
                          ![t].late = TRUE]
    /\ UNCHANGED txn
    /\ CursorFrame

\* lines 280-283: if connection: self._pool.return_connection(connection)
cursor_release(t) ==
    /\ cur[t].pc = "w_release"
    /\ pc[t] = "idle"
    /\ cur' = [cur EXCEPT ![t].pc = "w_ret", ![t].rel = @ + 1]
    /\ held' = [held EXCEPT ![t] = @ \ {cur[t].conn}]
    /\ connection' = [connection EXCEPT ![t] = cur[t].conn]
    /\ Goto(t, "r_entry")
    /\ outcome' = [outcome EXCEPT ![t] = "none"]
    /\ UNCHANGED <<shared, now, start_time, timeout, txn, init_i, obs, stats>>
    /\ UNCHANGED regvars

\* what leaves cursor() once return_connection has returned or raised (line
\* 197): the exception now propagating, "none" for a normal exit
ExitException(t) == IF outcome[t] = "error" THEN "release" ELSE cur[t].exc

\* line 283 is done: cursor() is left
cursor_exit(t) ==
    /\ cur[t].pc = "w_ret"
    /\ pc[t] = "idle"
    /\ cur' = [cur EXCEPT ![t] = NoCursor]
    /\ UNCHANGED txn
    /\ CursorFrame

\* PooledDatabaseConnection.close (line 295), called outside a with-block
cursor_call_close_all(t) ==
    /\ cur[t].pc = "none"
    /\ call_close_all(t)

CursorStep(t) ==
    \/ call_cursor(t)
    \/ cursor_acquired(t)
    \/ cursor_create(t)
    \/ cursor_create_fail(t)
    \/ cursor_work(t)
    \/ cursor_work_raises(t)
    \/ cursor_commit(t)
    \/ cursor_commit_fail(t)
    \/ cursor_rollback(t)
    \/ cursor_rollback_fail(t)
    \/ cursor_close(t)
    \/ cursor_close_fail(t)
    \/ cursor_release(t)
    \/ cursor_exit(t)
    \/ cursor_call_close_all(t)

NextCursor ==
    \/ \E t \in Threads :
          \/ CursorStep(t)
          \/ AcquireStep(t)
          \/ ReleaseStep(t)
          \/ CloseAllStep(t)
    \/ Tick

\* The pool used through cursor() only (and close()), by concurrent threads.
SpecCursor == Init /\ [][NextCursor]_vars

\* ---- get_stats ----
\* what a thread inside get_stats leaves alone
StatsFrame ==
    /\ UNCHANGED <<pool, active_connections, connection_times, closed, cstate, now,
                   connection, start_time, timeout, held, txn, init_i, cur, obs>>
    /\ UNCHANGED regvars

call_get_stats(t) ==
    /\ pc[t] = "idle"
    /\ Goto(t, "s_lock")
    /\ outcome' = [outcome EXCEPT ![t] = "none"]
    /\ stats' = [stats EXCEPT ![t] = NoStats]
    /\ UNCHANGED lock
    /\ StatsFrame

\* mutant: get_stats reads the pool without waiting for the lock
StatsLockSkipped(t) == TRUE

\* `with self._lock:` of get_stats, line 236, can be entered by t
StatsLockFree(t) == lock = NoThread

\* line 236
get_stats_lock(t) ==
    /\ pc[t] = "s_lock"
    /\ StatsLockFree(t)
    /\ lock' = t
    /\ Goto(t, "s_active")
    /\ UNCHANGED <<outcome, stats>>
    /\ StatsFrame

\* line 238: 'active_connections': self._active_connections
get_stats_active(t) ==
    /\ pc[t] = "s_active"
    /\ stats' = [stats EXCEPT ![t].active_connections = active_connections]
    /\ Goto(t, "s_qsize")
    /\ UNCHANGED <<lock, outcome>>
    /\ StatsFrame

\* line 239: 'available_connections': self._pool.qsize()
get_stats_qsize(t) ==
    /\ pc[t] = "s_qsize"
    /\ stats' = [stats EXCEPT ![t].available_connections = Len(pool),
                              ![t].at = <<active_connections, Len(pool), closed>>]
    /\ Goto(t, "s_closed")
    /\ UNCHANGED <<lock, outcome>>
    /\ StatsFrame

\* lines 237-243: the dict get_stats returns once it has read self._closed
ReturnedStats(t) == [stats[t] EXCEPT !.pool_closed = closed]

\* lines 242-243: 'pool_closed': self._closed; return the dict, leaving the
\* lock; the dict goes to the caller and the locals are dropped
get_stats_closed(t) ==
    /\ pc[t] = "s_closed"
    /\ stats' = [stats EXCEPT ![t] = NoStats]
    /\ lock' = NoThread
    /\ pc' = [pc EXCEPT ![t] = "idle"]
    /\ outcome' = [outcome EXCEPT ![t] = "stats"]
    /\ StatsFrame

StatsStep(t) ==
    \/ call_get_stats(t)
    \/ get_stats_lock(t)
    \/ get_stats_active(t)
    \/ get_stats_qsize(t)
    \/ get_stats_closed(t)

NextStats ==
    \/ \E t \in Threads :
          \/ ThreadStep(t)
          \/ StatsStep(t)
    \/ Tick

\* The pool with get_stats called concurrently with the other operations.
SpecStats == Init /\ [][NextStats]_vars

\* ---- pool registries ----
\* PooledDatabaseConnection objects not built yet
UnbuiltPools == {p \in RPools : rpool_mgr[p] = "none"}

NewPool == CHOOSE p \in UnbuiltPools : \A q \in UnbuiltPools : p <= q

\* PooledDatabaseConnection.__init__ -> ConnectionPool.__init__ (lines 249-258)
BuildPool(p, mgr, n) ==
    /\ rpool_name' = [rpool_name EXCEPT ![p] = n]
    /\ rpool_mgr' = [rpool_mgr EXCEPT ![p] = mgr]

\* mutant: the registry is read and written without its lock
RegistryLockNotTaken(t) == TRUE

\* `with cls._lock:` of PooledDatabaseManager can be entered by t
RegistryLockFree(t) == pdm_lock = NoThread

\* len() of a registry dict
DictSize(d) == Cardinality({n \in Names : d[n] # NoPool})

RFinish(t, result) ==
    /\ rpc' = [rpc EXCEPT ![t] = "idle"]
    /\ routcome' = [routcome EXCEPT ![t] = result]
    /\ riter' = [riter EXCEPT ![t] = [size |-> 0, seen |-> {}]]
    /\ rname' = [rname EXCEPT ![t] = "none"]

RGoto(t, label) == rpc' = [rpc EXCEPT ![t] = label]

\* a thread calls get_local_db / get_sensor_db or close_all of either registry
call_registry(t) ==
    /\ rpc[t] = "idle"
    /\ \E op \in {"p_lock", "d_check"}, n \in Names :
          /\ RGoto(t, op)
          /\ rname' = [rname EXCEPT ![t] = n]
    /\ rresult' = [rresult EXCEPT ![t] = NoPool]
    /\ routcome' = [routcome EXCEPT ![t] = "none"]
    /\ UNCHANGED <<pdm_instances, pdm_lock, dm_pooled_instances, rpool_name,
                   rpool_mgr, rpool_closed, riter>>
    /\ UNCHANGED poolvars

call_registry_close_all(t) ==
    /\ rpc[t] = "idle"
    /\ \E op \in {"pc_lock", "dc_start"} : RGoto(t, op)
    /\ rname' = [rname EXCEPT ![t] = "none"]
    /\ rresult' = [rresult EXCEPT ![t] = NoPool]
    /\ routcome' = [routcome EXCEPT ![t] = "none"]
    /\ UNCHANGED <<pdm_instances, pdm_lock, dm_pooled_instances, rpool_name,
                   rpool_mgr, rpool_closed, riter>>
    /\ UNCHANGED poolvars

\* PooledDatabaseManager.get_local_db / get_sensor_db, lines 311-312 / 326-327
pdm_get_lock(t) ==
    /\ rpc[t] = "p_lock"
    /\ RegistryLockFree(t)
    /\ pdm_lock' = t
    /\ IF pdm_instances[rname[t]] = NoPool
          THEN RGoto(t, "p_construct")
          ELSE RGoto(t, "p_return")
    /\ UNCHANGED <<pdm_instances, dm_pooled_instances, rpool_name, rpool_mgr,
                   rpool_closed, rname, rresult, routcome, riter>>
    /\ UNCHANGED poolvars

\* lines 313-319 / 328-334: build the pool and register it
pdm_get_construct(t) ==
    /\ rpc[t] = "p_construct"
    /\ UnbuiltPools # {}
    /\ BuildPool(NewPool, "PooledDatabaseManager", rname[t])
    /\ pdm_instances' = [pdm_instances EXCEPT ![rname[t]] = NewPool]
    /\ RGoto(t, "p_return")
    /\ UNCHANGED <<pdm_lock, dm_pooled_instances, rpool_closed, rname, rresult,
                   routcome, riter>>
    /\ UNCHANGED poolvars

\* lines 321 / 336, leaving the lock
pdm_get_return(t) ==
    /\ rpc[t] = "p_return"
    /\ rresult' = [rresult EXCEPT ![t] = pdm_instances[rname[t]]]
    /\ pdm_lock' = NoThread
    /\ RFinish(t, "instance")
    /\ UNCHANGED <<pdm_instances, dm_pooled_instances, rpool_name, rpool_mgr,
                   rpool_closed>>
    /\ UNCHANGED poolvars

\* PooledDatabaseManager.close_all, line 341
pdm_close_all_lock(t) ==
    /\ rpc[t] = "pc_lock"
    /\ RegistryLockFree(t)
    /\ pdm_lock' = t
    /\ RGoto(t, "pc_close")
    /\ UNCHANGED <<pdm_instances, dm_pooled_instances, rpool_name, rpool_mgr,
                   rpool_closed, rname, rresult, routcome, riter>>
    /\ UNCHANGED poolvars

\* lines 342-345: close every registered pool, clear, leave the lock
pdm_close_all_close(t) ==
    /\ rpc[t] = "pc_close"
    /\ rpool_closed' = [p \in RPools |->
          rpool_closed[p] \/ \E n \in Names : pdm_instances[n] = p]
    /\ pdm_instances' = [n \in Names |-> NoPool]
    /\ pdm_lock' = NoThread
    /\ RFinish(t, "shutdown")
    /\ UNCHANGED <<dm_pooled_instances, rpool_name, rpool_mgr, rresult>>
    /\ UNCHANGED poolvars

\* DatabaseManager._get_pooled_local_db / _get_pooled_sensor_db, lines 99 / 116
dm_get_check(t) ==
    /\ rpc[t] = "d_check"
    /\ IF dm_pooled_instances[rname[t]] = NoPool
          THEN RGoto(t, "d_construct")
          ELSE RGoto(t, "d_return")
    /\ UNCHANGED <<pdm_instances, pdm_lock, dm_pooled_instances, rpool_name,
                   rpool_mgr, rpool_closed, rname, rresult, routcome, riter>>
    /\ UNCHANGED poolvars

\* lines 100-110 / 117-127: build the pool (with its warm-up) and register it
dm_get_construct(t) ==
    /\ rpc[t] = "d_construct"
    /\ UnbuiltPools # {}
    /\ BuildPool(NewPool, "DatabaseManager", rname[t])
    /\ dm_pooled_instances' = [dm_pooled_instances EXCEPT ![rname[t]] = NewPool]
    /\ RGoto(t, "d_return")
    /\ UNCHANGED <<pdm_instances, pdm_lock, rpool_closed, rname, rresult,
                   routcome, riter>>
    /\ UNCHANGED poolvars

\* lines 111 / 128: return cls._pooled_instances[name] (KeyError once cleared)
dm_get_return(t) ==
    /\ rpc[t] = "d_return"
    /\ rresult' = [rresult EXCEPT ![t] = dm_pooled_instances[rname[t]]]
    /\ IF dm_pooled_instances[rname[t]] = NoPool
          THEN RFinish(t, "error")
          ELSE RFinish(t, "instance")
    /\ UNCHANGED <<pdm_instances, pdm_lock, dm_pooled_instances, rpool_name,
                   rpool_mgr, rpool_closed>>
    /\ UNCHANGED poolvars

\* DatabaseManager.close_all, line 140: the iterator over _pooled_instances.items()
dm_close_all_start(t) ==
    /\ rpc[t] = "dc_start"
    /\ riter' = [riter EXCEPT ![t] =
          [size |-> DictSize(dm_pooled_instances), seen |-> {}]]
    /\ RGoto(t, "dc_next")
    /\ UNCHANGED <<pdm_instances, pdm_lock, dm_pooled_instances, rpool_name,
                   rpool_mgr, rpool_closed, rname, rresult, routcome>>
    /\ UNCHANGED poolvars

\* lines 140-142: one turn of the loop; the iterator raises RuntimeError when the
\* dict changed size since it was made
dm_close_all_next(t) ==
    /\ rpc[t] = "dc_next"
    /\ LET todo == {n \in Names : dm_pooled_instances[n] # NoPool} \ riter[t].seen
       IN  IF DictSize(dm_pooled_instances) # riter[t].size
              THEN /\ RFinish(t, "error")
                   /\ UNCHANGED rpool_closed
              ELSE IF todo = {}
                      THEN /\ RGoto(t, "dc_clear")
                           /\ UNCHANGED <<rpool_closed, routcome, riter, rname>>
                      ELSE \E n \in todo :
                              /\ rpool_closed' = [rpool_closed EXCEPT
                                                   ![dm_pooled_instances[n]] = TRUE]
                              /\ riter' = [riter EXCEPT ![t].seen = @ \cup {n}]
                              /\ UNCHANGED <<rpc, routcome, rname>>
    /\ UNCHANGED <<pdm_instances, pdm_lock, dm_pooled_instances, rpool_name,
                   rpool_mgr, rresult>>
    /\ UNCHANGED poolvars

\* line 143
dm_close_all_clear(t) ==
    /\ rpc[t] = "dc_clear"
    /\ dm_pooled_instances' = [n \in Names |-> NoPool]
    /\ RFinish(t, "shutdown")
    /\ UNCHANGED <<pdm_instances, pdm_lock, rpool_name, rpool_mgr, rpool_closed,
                   rresult>>
    /\ UNCHANGED poolvars

RegistryStep(t) ==
    \/ call_registry(t)
    \/ call_registry_close_all(t)
    \/ pdm_get_lock(t)
    \/ pdm_get_construct(t)
    \/ pdm_get_return(t)
    \/ pdm_close_all_lock(t)
    \/ pdm_close_all_close(t)
    \/ dm_get_check(t)
    \/ dm_get_construct(t)
    \/ dm_get_return(t)
    \/ dm_close_all_start(t)
    \/ dm_close_all_next(t)
    \/ dm_close_all_clear(t)

NextRegistry == \E t \in Threads : RegistryStep(t)

\* the registries alone, beside a pool nobody uses
InitRegistryOnly ==
    /\ InitPool(MinConnections)
    /\ InitThreads
    /\ InitCallers
    /\ obs = NoObs
    /\ InitRegistry

SpecRegistry == InitRegistryOnly /\ [][NextRegistry]_vars

\* ---- the registry and its pool together ----
\* The PooledDatabaseConnection registered under 'local' is the one whose
\* ConnectionPool is modelled statement by statement; the other instances are
\* known by their closed flag only.
ThePool == 1

\* the state after the first PooledDatabaseManager.get_local_db() has returned
InitRegistered ==
    /\ pdm_instances = [n \in Names |-> IF n = "local" THEN ThePool ELSE NoPool]
    /\ pdm_lock = NoThread
    /\ dm_pooled_instances = [n \in Names |-> NoPool]
    /\ rpool_name = [p \in RPools |-> IF p = ThePool THEN "local" ELSE "none"]
    /\ rpool_mgr = [p \in RPools |->
                      IF p = ThePool THEN "PooledDatabaseManager" ELSE "none"]
    /\ rpool_closed = [p \in RPools |-> FALSE]
    /\ rpc = [t \in Threads |-> "idle"]
    /\ rname = [t \in Threads |-> "none"]
    /\ rresult = [t \in Threads |-> NoPool]
    /\ routcome = [t \in Threads |-> "none"]
    /\ riter = [t \in Threads |-> [size |-> 0, seen |-> {}]]

InitLocks ==
    /\ \E k \in 0..MinConnections : InitPool(k)
    /\ InitThreads
    /\ InitCallers
    /\ obs = NoObs
    /\ InitRegistered

\* Every thread calls the registry; the threads of PoolUsers also call the pool
\* they got from it (get_connection, return_connection, close_all, get_stats),
\* the others reach the pool through PooledDatabaseManager.close_all only.
PoolUsers == {"t2"}

\* a thread makes one call at a time: none on the pool while it is inside a
\* registry call
locks_call_get_connection(t) ==
    /\ t \in PoolUsers
    /\ rpc[t] = "idle"
    /\ call_get_connection(t)

locks_call_return_connection(t) ==
    /\ t \in PoolUsers
    /\ rpc[t] = "idle"
    /\ call_return_connection(t)

locks_call_close_all(t) ==
    /\ t \in PoolUsers
    /\ rpc[t] = "idle"
    /\ call_close_all(t)

locks_call_get_stats(t) ==
    /\ t \in PoolUsers
    /\ rpc[t] = "idle"
    /\ call_get_stats(t)

\* PooledDatabaseManager.get_local_db / get_sensor_db is called, for a name that
\* is registered when the call starts (a close_all may remove it before the
\* call has the lock: the instance is then built anew, lines 312-319); the
\* model has MaxPools instances to build, so a call starts only while every
\* thread can still build one
locks_call_get_db(t) ==
    /\ pc[t] = "idle"
    /\ rpc[t] = "idle"
    /\ Cardinality(UnbuiltPools) >= Cardinality(Threads)
    /\ \E n \in Names :
          /\ pdm_instances[n] # NoPool
          /\ rname' = [rname EXCEPT ![t] = n]
    /\ RGoto(t, "p_lock")
    /\ rresult' = [rresult EXCEPT ![t] = NoPool]
    /\ routcome' = [routcome EXCEPT ![t] = "none"]
    /\ UNCHANGED <<pdm_instances, pdm_lock, dm_pooled_instances, rpool_name,
                   rpool_mgr, rpool_closed, riter>>
    /\ UNCHANGED poolvars

\* PooledDatabaseManager.close_all is called
locks_call_pdm_close_all(t) ==
    /\ pc[t] = "idle"
    /\ rpc[t] = "idle"
    /\ RGoto(t, "pc_lock")
    /\ rname' = [rname EXCEPT ![t] = "none"]
    /\ rresult' = [rresult EXCEPT ![t] = NoPool]
    /\ routcome' = [routcome EXCEPT ![t] = "none"]
    /\ UNCHANGED <<pdm_instances, pdm_lock, dm_pooled_instances, rpool_name,
                   rpool_mgr, rpool_closed, riter>>
    /\ UNCHANGED poolvars

\* PooledDatabaseManager.close_all, lines 342-344: one turn of the loop, inside
\* cls._lock: instance.close() -> self._pool.close_all() (line 295); for the
\* pool modelled in full the call starts here and runs through close_all_lock,
\* close_all_drain and close_all_reset
pdm_close_all_instance(t) ==
    /\ rpc[t] = "pc_close"
    /\ pc[t] = "idle"
    /\ \E n \in Names :
          /\ pdm_instances[n] # NoPool
          /\ n \notin riter[t].seen
          /\ riter' = [riter EXCEPT ![t].seen = @ \cup {n}]
          /\ IF pdm_instances[n] = ThePool
                THEN /\ Goto(t, "c_lock")
                     /\ outcome' = [outcome EXCEPT ![t] = "none"]
                     /\ UNCHANGED rpool_closed
                ELSE /\ rpool_closed' = [rpool_closed EXCEPT
                                           ![pdm_instances[n]] = TRUE]
                     /\ UNCHANGED <<pc, outcome>>
    /\ UNCHANGED <<pdm_instances, pdm_lock, dm_pooled_instances, rpool_name,
                   rpool_mgr, rpc, rname, rresult, routcome>>
    /\ UNCHANGED <<shared, now, connection, start_time, timeout, held, txn,
                   init_i, cur, obs, stats>>

\* line 345 once the loop is over: cls._instances.clear(), leaving cls._lock
pdm_close_all_clear(t) ==
    /\ rpc[t] = "pc_close"
    /\ pc[t] = "idle"
    /\ \A n \in Names : pdm_instances[n] # NoPool => n \in riter[t].seen
    /\ pdm_instances' = [n \in Names |-> NoPool]
    /\ pdm_lock' = NoThread
    /\ RFinish(t, "shutdown")
    /\ UNCHANGED <<dm_pooled_instances, rpool_name, rpool_mgr, rpool_closed,
                   rresult>>
    /\ UNCHANGED poolvars

LocksStep(t) ==
    \/ AcquireStep(t)
    \/ ReleaseStep(t)
    \/ CloseAllStep(t)
    \/ get_stats_lock(t)
    \/ get_stats_active(t)
    \/ get_stats_qsize(t)
    \/ get_stats_closed(t)
    \/ pdm_get_lock(t)
    \/ pdm_get_construct(t)
    \/ pdm_get_return(t)
    \/ pdm_close_all_lock(t)
    \/ pdm_close_all_instance(t)
    \/ pdm_close_all_clear(t)

LocksCall(t) ==
    \/ locks_call_get_connection(t)
    \/ locks_call_return_connection(t)
    \/ locks_call_close_all(t)
    \/ locks_call_get_stats(t)
    \/ locks_call_get_db(t)
    \/ locks_call_pdm_close_all(t)

NextLocks ==
    \/ \E t \in Threads : LocksCall(t) \/ LocksStep(t)
    \/ Tick

\* self._pool.close_all() entering the pool lock on behalf of
\* PooledDatabaseManager.close_all, which holds cls._lock
pdm_close_all_pool_lock == \E t \in Threads : pdm_lock = t /\ close_all_lock(t)

\* Registry and pool used together. A thread inside a call keeps being
\* scheduled; the thread that holds the registry lock and waits for the pool
\* lock gets it if the lock is free again and again. Callers are free to stop
\* calling.
SpecLocks ==
    /\ InitLocks
    /\ [][NextLocks]_vars
    /\ \A t \in Threads : WF_vars(LocksStep(t))
    /\ SF_vars(pdm_close_all_pool_lock)


\* ======================= properties =======================
Leased == UNION {held[t] : t \in Threads}

InAcquire(t) ==
    pc[t] \in {"g_entry", "g_loop", "g_pop", "g_valid", "g_stamp", "g_decr",
               "g_close", "g_lock", "g_create", "g_incr", "g_sleep"}

InCloseAll(t) == pc[t] \in {"c_lock", "c_drain", "c_reset"}

\* the step is one of thread t, leaving the position `label`
StepFrom(t, label) == pc[t] = label /\ pc'[t] # label

\* C1: under every interleaving of get_connection and return_connection (and
\* close_all), _active_connections never exceeds max_connections.
C1_ActiveWithinMax == active_connections <= MaxConnections

\* C1 witness: the pool is at its maximum and an acquirer has just been refused
\* a new connection while the other thread is inside a call too.
C1_Witness ==
    /\ active_connections = MaxConnections
    /\ \E t \in Threads : pc[t] = "g_sleep"
    /\ \A t \in Threads : pc[t] # "idle"

\* C2: the number of connections in the idle queue never exceeds
\* _active_connections, under any interleaving of get_connection,
\* return_connection and close_all.
C2_IdleWithinActive == Len(pool) <= active_connections

\* C3: no connection is owned twice: it is leased to at most one caller, it is
\* never in the idle queue while leased, it occurs at most once in the queue, and
\* a call that is handling it (popped, created or being returned) is its only owner.
C3_AtMostOneHolder ==
    \A c \in Conns :
        Cardinality({t \in Threads : c \in held[t]})
        + Cardinality({t \in Threads : connection[t] = c})
        + Cardinality({i \in 1..Len(pool) : pool[i] = c}) <= 1

\* C3 witness: both callers hold a lease handed out by get_connection on an open
\* pool at the same time.
C3_Witness ==
    \E t, u \in Threads :
        /\ t # u
        /\ held[t] # {} /\ held[u] # {}
        /\ outcome[t] = "conn" /\ outcome[u] = "conn"
        /\ pc[t] = "idle" /\ pc[u] = "idle"
        /\ ~closed

\* C4: the capacity check and the increment are one critical section: the
\* acquirers that passed the check and have not yet counted their connection,
\* together with the connections already counted, never exceed max_connections,
\* and at most one acquirer is past the check at a time.
C4_OneCreatorPerSlot ==
    LET past == {t \in Threads : pc[t] \in {"g_create", "g_incr"}}
    IN  /\ Cardinality(past) <= 1
        /\ active_connections + Cardinality(past) <= MaxConnections

\* C4 witness: one slot is left, the queue is empty, one acquirer has passed the
\* check for it and another one is waiting for the lock.
C4_Witness ==
    /\ active_connections = MaxConnections - 1
    /\ pool = <<>>
    /\ \E t, u \in Threads :
          /\ pc[t] = "g_create"
          /\ pc[u] = "g_lock"

PdmPools(n) ==
    {p \in RPools : rpool_mgr[p] = "PooledDatabaseManager" /\ rpool_name[p] = n}

DmPools(n) ==
    {p \in RPools : rpool_mgr[p] = "DatabaseManager" /\ rpool_name[p] = n}

OpenPools(S) == {p \in S : ~rpool_closed[p]}

\* C5: PooledDatabaseManager: for every name at most one pool built by the
\* registry is open at any time (a second one is built only after close_all has
\* closed the first), every get_*_db call returns an instance, and every instance
\* a caller received and that is still open is the one registered for its name.
C5_PdmSinglePoolPerName ==
    /\ \A n \in Names : Cardinality(OpenPools(PdmPools(n))) <= 1
    /\ \A t \in Threads :
          routcome[t] = "instance" =>
             /\ rresult[t] # NoPool
             /\ (rpool_mgr[rresult[t]] = "PooledDatabaseManager"
                 /\ ~rpool_closed[rresult[t]])
                   => pdm_instances[rpool_name[rresult[t]]] = rresult[t]

\* C5 witness: two threads raced on the first call for one name, one pool was
\* built and both received it.
C5_Witness ==
    \E n \in Names : \E t, u \in Threads :
        /\ t # u
        /\ Cardinality(PdmPools(n)) = 1
        /\ routcome[t] = "instance" /\ routcome[u] = "instance"
        /\ rresult[t] = rresult[u]
        /\ rresult[t] \in PdmPools(n)

\* C6: DatabaseManager with pooling enabled: for every name at most one pool
\* built by the registry is open at any time and every instance a caller received
\* and that is still open is the one registered for its name.
C6_DmSinglePoolPerName ==
    /\ \A n \in Names : Cardinality(OpenPools(DmPools(n))) <= 1
    /\ \A t \in Threads :
          (/\ routcome[t] = "instance"
           /\ rresult[t] # NoPool
           /\ rpool_mgr[rresult[t]] = "DatabaseManager"
           /\ ~rpool_closed[rresult[t]])
             => dm_pooled_instances[rpool_name[rresult[t]]] = rresult[t]

\* C7: a get_connection that makes its closed check on a closed pool ends at once
\* with the pool-closed error: it pops nothing, creates nothing, takes no lock,
\* does not sleep or loop, and leaves the counter, the queue, the timestamps and
\* the connections as they were.
C7_ClosedFailsImmediately ==
    [][\A t \in Threads :
          (StepFrom(t, "g_entry") /\ closed) =>
             /\ pc'[t] = "idle"
             /\ outcome'[t] = "closed"
             /\ held'[t] = held[t]
             /\ UNCHANGED <<pool, active_connections, connection_times, cstate,
                            lock, closed>>]_vars

\* C7 witness: close_all has completed and a later get_connection ended with the
\* pool-closed error.
C7_Witness ==
    \E t \in Threads :
        /\ closed
        /\ pc[t] = "idle" /\ outcome[t] = "closed"
        /\ \A u \in Threads : ~InCloseAll(u)

\* every one of the max_connections connections is leased (open pool)
Saturated == ~closed /\ Cardinality(Leased) = MaxConnections

\* C8: on an open pool whose max_connections connections are all leased, no
\* get_connection returns a connection; a get_connection raises the timeout error
\* only when at least `timeout` has elapsed since it started; and a
\* get_connection with timeout > 0 that finds the pool saturated ends with the
\* timeout error unless a lease is given back (or the pool is shut down) first.
C8_SaturatedTimesOut ==
    /\ [][\A t \in Threads :
            /\ (InAcquire(t) /\ pc'[t] = "idle" /\ outcome'[t] = "conn")
                  => ~Saturated
            /\ (InAcquire(t) /\ pc'[t] = "idle" /\ outcome'[t] = "timeout")
                  => now - start_time[t] >= timeout[t]]_vars
    /\ \A t \in Threads :
          (InAcquire(t) /\ pc[t] # "g_entry" /\ timeout[t] > 0 /\ Saturated)
             ~> ((pc[t] = "idle" /\ outcome[t] = "timeout") \/ ~Saturated)

\* C8 witness: all max_connections connections are leased, nothing was given
\* back, and a get_connection with timeout > 0 has ended with the timeout error.
C8_Witness ==
    \E t \in Threads :
        /\ Saturated
        /\ pc[t] = "idle" /\ outcome[t] = "timeout"
        /\ now >= 1
        /\ \A u \in Threads : pc[u] = "idle"

\* C9: once the time since the call's start_time has reached its timeout, a
\* get_connection pops nothing more, attempts no creation and returns no
\* connection.
C9_NoHandoutAfterDeadline ==
    [][\A t \in Threads :
          (\/ StepFrom(t, "g_pop")
           \/ StepFrom(t, "g_create")
           \/ StepFrom(t, "g_stamp")
           \/ StepFrom(t, "g_incr"))
             => now - start_time[t] < timeout[t]]_vars

\* C10: a connection popped from the idle queue whose recorded timestamp is more
\* than max_idle_time in the past when it is validated is not handed out: the call
\* goes on to discard it, the discard decrements _active_connections by exactly
\* one, and closing it removes its timestamp, closes the session and leaves it
\* neither leased nor queued.
C10_StaleNeverReturned ==
    [][\A t \in Threads :
          LET c == connection[t]
          IN  /\ (/\ StepFrom(t, "g_valid")
                  /\ connection_times[c] # NoTime
                  /\ now - connection_times[c] > MaxIdleTime)
                    => pc'[t] = "g_decr"
              /\ StepFrom(t, "g_decr") =>
                    /\ pc'[t] = "g_close"
                    /\ active_connections' = active_connections - 1
              /\ StepFrom(t, "g_close") =>
                    /\ cstate'[c] = "closed"
                    /\ connection_times'[c] = NoTime
                    /\ c \notin UNION {held'[u] : u \in Threads}
                    /\ c \notin SeqToSet(pool')
                    /\ pc'[t] = "g_loop"]_vars

\* C10 witness: an open session that outlived max_idle_time in the queue was
\* popped, refused by the validation and has been taken off the counter.
C10_Witness ==
    \E t \in Threads :
        /\ pc[t] = "g_close"
        /\ cstate[connection[t]] = "open"
        /\ connection_times[connection[t]] # NoTime
        /\ now - connection_times[connection[t]] > MaxIdleTime

\* C11 as stated: on an open pool used by one call at a time, a successful
\* get_connection immediately followed by return_connection of the same, still
\* valid connection leaves _active_connections and the length of the idle queue
\* as they were before the get_connection, whether the connection came from the
\* queue or was created.
C11_RoundTripRestores ==
    obs.phase = "roundtrip" =>
        /\ active_connections = obs.pre_active
        /\ Len(pool) = obs.pre_idle

\* C11 amended: after such a round trip both _active_connections and the length
\* of the idle queue differ from their values before the get_connection by
\* (1 if the connection was created, else 0) minus the number of invalid idle
\* connections the get_connection discarded; they are as before when the call
\* was served by the first idle connection it popped.
C11_RoundTripDelta ==
    obs.phase = "roundtrip" =>
        LET d == (IF obs.created THEN 1 ELSE 0) - obs.discarded
        IN  /\ ~closed
            /\ active_connections = obs.pre_active + d
            /\ Len(pool) = obs.pre_idle + d
            /\ (~obs.created /\ obs.discarded = 0) =>
                  /\ active_connections = obs.pre_active
                  /\ Len(pool) = obs.pre_idle

\* C11 witness: a round trip has completed whose get_connection created the
\* connection: the pool has grown by one.
C11_Witness ==
    /\ obs.phase = "roundtrip"
    /\ obs.created
    /\ obs.discarded = 0
    /\ active_connections = obs.pre_active + 1
    /\ Len(pool) = obs.pre_idle + 1

\* C12: _initialize_pool makes exactly min_connections attempts, a failed
\* attempt is skipped without ending the construction, and when the constructor
\* returns _active_connections and the length of the idle queue both equal the
\* number of creations that succeeded (min_connections when none failed), the
\* queued connections are open and the pool is open.
C12_WarmUp ==
    /\ init_i <= MinConnections
    /\ obs.phase = "ctor" =>
          /\ obs.made + obs.failed = init_i
          /\ active_connections = obs.made
          /\ Len(pool) = obs.made
          /\ \A c \in SeqToSet(pool) : cstate[c] = "open"
          /\ ~closed
          /\ (init_i = MinConnections /\ obs.failed = 0) =>
                /\ active_connections = MinConnections
                /\ Len(pool) = MinConnections

\* C12 witness: the constructor has returned although a creation failed.
C12_Witness ==
    /\ obs.phase = "ctor"
    /\ init_i = MinConnections
    /\ obs.failed > 0
    /\ ~closed

\* C13: a return_connection that finds the pool closed closes the connection,
\* valid or not, and returns; it neither queues the connection nor touches
\* _active_connections.
C13_ReleaseOnClosedDestroys ==
    [][\A t \in Threads :
          (StepFrom(t, "r_entry") /\ closed) =>
             /\ pc'[t] = "idle"
             /\ outcome'[t] = "returned"
             /\ cstate'[connection[t]] = "closed"
             /\ connection_times'[connection[t]] = NoTime
             /\ pool' = pool
             /\ active_connections' = active_connections]_vars

\* C13 witness: close_all has completed and a caller that still holds an open
\* connection is at the first statement of return_connection.
C13_Witness ==
    \E t \in Threads :
        /\ pc[t] = "r_entry"
        /\ closed
        /\ cstate[connection[t]] = "open"
        /\ \A u \in Threads : ~InCloseAll(u)
        /\ \E u \in Threads : outcome[u] = "shutdown"

\* C14: close_all run with no other call in progress: when it has returned the
\* pool is closed, the idle queue is empty, every connection that was idle is
\* closed, _connection_times is empty and the leased connections are still open;
\* no step of it touches a leased connection; a close_all on a pool already
\* closed changes nothing and returns normally.
C14_CloseAll ==
    /\ [](obs.phase = "closed" =>
            /\ closed
            /\ pool = <<>>
            /\ \A c \in obs.pre_pool : cstate[c] = "closed"
            /\ \A c \in Conns : connection_times[c] = NoTime
            /\ \A c \in Leased : cstate[c] = "open")
    /\ [][\A t \in Threads :
            InCloseAll(t) =>
               /\ \A c \in Leased : cstate'[c] = cstate[c]
               /\ held' = held
               /\ pc'[t] = "idle" => outcome'[t] = "shutdown"
               /\ obs.pre_closed =>
                     UNCHANGED <<pool, active_connections, connection_times,
                                 cstate, closed>>]_vars

\* C14 witness: close_all has returned on a pool that had an idle connection
\* and a leased one.
C14_Witness ==
    /\ obs.phase = "closed"
    /\ ~obs.pre_closed
    /\ obs.pre_pool # {}
    /\ Leased # {}

\* C15: a get_connection ends by returning a connection, by the timeout error or
\* by the pool-closed error and in no other way; a failed creation leads to the
\* back-off and the next turn of the loop, a failed validation to the discard and
\* the next turn of the loop.
C15_AcquireOutcomes ==
    [][\A t \in Threads :
          /\ (InAcquire(t) /\ pc'[t] = "idle") =>
                /\ outcome'[t] \in {"conn", "timeout", "closed"}
                /\ outcome'[t] = "conn" <=> held'[t] # held[t]
          /\ StepFrom(t, "g_loop") => pc'[t] \in {"g_pop", "idle"}
          /\ StepFrom(t, "g_valid") => pc'[t] \in {"g_stamp", "g_decr"}
          /\ StepFrom(t, "g_decr") => pc'[t] = "g_close"
          /\ StepFrom(t, "g_close") => pc'[t] = "g_loop"
          /\ StepFrom(t, "g_create") => pc'[t] \in {"g_incr", "g_sleep"}
          /\ StepFrom(t, "g_sleep") => pc'[t] = "g_loop"]_vars

\* C15 witness: a creation has just failed below the capacity and the call is in
\* its back-off, still inside the loop.
C15_Witness ==
    \E t \in Threads :
        /\ pc[t] = "g_sleep"
        /\ lock = t
        /\ active_connections < MaxConnections
        /\ ~closed

\* a thread is inside cursor() with a connection it acquired
InWork(t) ==
    cur[t].pc \in {"w_cursor", "w_yield", "w_commit", "w_rollback", "w_close",
                   "w_release"}

\* return_connection, called at line 283, is over and cursor() about to be left
AtExit(t) == cur[t].pc = "w_ret" /\ pc[t] = "idle"

\* C16: whenever get_connection succeeded inside cursor(), return_connection is
\* called on that connection exactly once before cursor() is left, whatever
\* happened in between (the body returned or raised; cursor(), commit, rollback
\* or cursor.close raised); when get_connection failed, return_connection is
\* not called.
C16_ReleaseExactlyOnce ==
    /\ [](\A t \in Threads :
            /\ cur[t].rel <= 1
            /\ cur[t].pc \in {"none", "w_get"} =>
                  cur[t].conn = NoConn /\ cur[t].rel = 0
            /\ InWork(t) =>
                  /\ cur[t].rel = 0
                  /\ cur[t].conn # NoConn
                  /\ cur[t].conn \in held[t]
            /\ cur[t].pc = "w_ret" =>
                  /\ cur[t].rel = 1
                  /\ cur[t].conn \notin held[t])
    /\ [][\A t \in Threads :
            /\ (cur[t].pc # "none" /\ cur'[t].pc = "none") =>
                  IF cur[t].conn # NoConn
                     THEN cur[t].pc = "w_ret" /\ cur[t].rel = 1
                     ELSE /\ cur[t].pc = "w_get"
                          /\ cur[t].rel = 0
                          /\ outcome[t] \in {"timeout", "closed"}
            /\ (cur[t].pc = "w_release" /\ cur'[t].pc # "w_release") =>
                  /\ cur'[t].pc = "w_ret"
                  /\ pc'[t] = "r_entry"
                  /\ connection'[t] = cur[t].conn]_vars

\* C16 witness: the body raised, cursor.close raised too, and the one
\* return_connection call has been made and is over.
C16_Witness ==
    \E t \in Threads :
        /\ AtExit(t)
        /\ cur[t].orig = "raised"
        /\ cur[t].exc = "close"
        /\ cur[t].rel = 1

\* C17 as stated: when cursor() reaches the release, commit has been issued if
\* the body ended normally, and rollback has been issued if the body raised an
\* Exception or the commit raised; whenever the body or the commit raised, that
\* exception is the one that leaves cursor() (asked here only of the exits in
\* which return_connection itself returned normally); and no connection in the
\* idle queue carries uncommitted work.
C17_CommitOrRollbackThenRelease ==
    /\ \A t \in Threads :
          /\ cur[t].pc \in {"w_release", "w_ret"} =>
                /\ cur[t].work = "ok" => cur[t].committed
                /\ cur[t].orig \in {"raised", "commit"} => cur[t].rolled
          /\ (AtExit(t) /\ cur[t].orig # "none" /\ outcome[t] # "error") =>
                ExitException(t) = cur[t].orig
    /\ \A c \in SeqToSet(pool) : ~txn[c]

\* C17 amended: commit is issued before the release when the body ended
\* normally; rollback is issued before the release when the body raised an
\* Exception or the commit raised, and is not issued by cursor() when the body
\* raised another BaseException; the exception that leaves cursor() is the one
\* of the body or the commit unless rollback, cursor.close or
\* return_connection raised after it, and then it is the last of these; and no
\* connection in the idle queue carries uncommitted work.
C17_CommitOrRollbackThenReleaseOrLaterError ==
    /\ \A t \in Threads :
          /\ cur[t].pc \in {"w_release", "w_ret"} =>
                /\ cur[t].work = "ok" => cur[t].committed
                /\ cur[t].orig \in {"raised", "commit"} => cur[t].rolled
                /\ cur[t].orig = "base" => ~cur[t].rolled /\ ~cur[t].committed
          /\ (AtExit(t) /\ cur[t].orig # "none") =>
                IF outcome[t] = "error"
                   THEN ExitException(t) = "release"
                   ELSE IF cur[t].late
                           THEN ExitException(t) \in {"rollback", "close"}
                           ELSE ExitException(t) = cur[t].orig
    /\ \A c \in SeqToSet(pool) : ~txn[c]

\* C17 witness: the body raised, the rollback succeeded, nothing else raised and
\* the connection is back in the idle queue.
C17_Witness ==
    \E t \in Threads :
        /\ AtExit(t)
        /\ outcome[t] = "returned"
        /\ cur[t].orig = "raised"
        /\ cur[t].rolled
        /\ ~cur[t].late
        /\ cur[t].conn \in SeqToSet(pool)

\* C18: a return_connection on an open pool ends either with the connection
\* rolled back and queued and _active_connections unchanged, or with the
\* connection closed, _active_connections decremented by one and the queue
\* unchanged; it never ends leaving the connection open, out of the queue and
\* still counted.
C18_ReleasePostcondition ==
    [][\A t \in Threads :
          LET c == connection[t]
          IN  /\ StepFrom(t, "r_put") =>
                    \/ /\ pc'[t] = "idle"
                       /\ c \in SeqToSet(pool')
                       /\ ~txn'[c]
                       /\ active_connections' = active_connections
                    \/ /\ pc'[t] = "r_decr"
                       /\ pool' = pool
                       /\ active_connections' = active_connections
              /\ StepFrom(t, "r_decr") =>
                    /\ pc'[t] = "r_close"
                    /\ active_connections' = active_connections - 1
                    /\ pool' = pool
              /\ StepFrom(t, "r_close") =>
                    /\ pc'[t] = "idle"
                    /\ cstate'[c] = "closed"
                    /\ pool' = pool
                    /\ active_connections' = active_connections]_vars

\* C19 as stated: a get_connection that popped an idle connection older than
\* max_idle_time and then created a connection leaves _active_connections as it
\* was before the call, and returns the connection it created.
C19_AgedReplacedNetUnchanged ==
    (obs.phase = "acquired" /\ obs.aged /\ obs.created) =>
        /\ active_connections = obs.pre_active
        /\ obs.conn = obs.new

\* C19 amended: such a get_connection decrements _active_connections once for
\* every idle connection it discards and increments it once for the connection
\* it creates: afterwards the counter is its value before the call minus the
\* number discarded plus one (unchanged when one was discarded), and the
\* connection returned is the one created, open and leased.
C19_AgedReplaced ==
    (obs.phase = "acquired" /\ obs.aged /\ obs.created) =>
        /\ obs.discarded >= 1
        /\ active_connections = obs.pre_active - obs.discarded + 1
        /\ obs.discarded = 1 => active_connections = obs.pre_active
        /\ obs.conn = obs.new
        /\ cstate[obs.conn] = "open"
        /\ obs.conn \in Leased

\* C19 witness: one aged idle connection was discarded and replaced by a new
\* one within one get_connection.
C19_Witness ==
    /\ obs.phase = "acquired"
    /\ obs.aged
    /\ obs.created
    /\ obs.discarded = 1
    /\ active_connections = obs.pre_active

\* C20: return_connection stamps the connection it queues with the time of the
\* release.
C20_ReleaseStamps ==
    [][\A t \in Threads :
          (StepFrom(t, "r_put") /\ pc'[t] = "idle"
              /\ connection[t] \in SeqToSet(pool'))
             => connection_times'[connection[t]] = now]_vars

\* close_all has run to its end and none is in progress
ShutDown == closed /\ \A u \in Threads : pc[u] \notin {"c_drain", "c_reset"}

\* C21: in every state of an open pool in which no get_connection,
\* return_connection or close_all is in progress, _active_connections equals the
\* number of connections in the idle queue plus the number of connections leased
\* to callers, after any sequence of calls including ones that hit creation,
\* validation or rollback failures.
C21_CounterAccurate ==
    (~closed /\ \A t \in Threads : pc[t] = "idle") =>
        active_connections = Len(pool) + Cardinality(Leased)

\* C24: a return_connection that is about to take the pool lock for its
\* decrement never finds the lock held by a thread that is backing off or
\* attempting a creation inside get_connection.
C24_ReleaseNeverWaitsForAcquirer ==
    \A t, u \in Threads :
        ~(/\ pc[t] = "r_decr"
          /\ lock = u
          /\ pc[u] \in {"g_create", "g_sleep"})

\* C25: for an open pool whose warm-up created min_connections connections,
\* _active_connections >= min_connections in every reachable state.
C25_MinMaintained ==
    (init_i = MinConnections /\ obs.made = MinConnections /\ ~closed) =>
        active_connections >= MinConnections

\* C26: _active_connections is never negative, under any interleaving of
\* get_connection, return_connection and close_all.
C26_ActiveNonNegative == active_connections >= 0

\* C27: once close_all has completed, no get_connection returns a connection or
\* creates one, including a call that began before close_all and is still in
\* its loop.
C27_ClosedNeverHandsOut ==
    [][\A t \in Threads :
          ShutDown =>
             /\ ~(StepFrom(t, "g_stamp") /\ outcome'[t] = "conn")
             /\ ~(StepFrom(t, "g_create") /\ pc'[t] = "g_incr")
             /\ ~(StepFrom(t, "g_incr") /\ outcome'[t] = "conn")]_vars

\* C28: in every state after close_all has completed the idle queue is empty.
C28_NothingStranded == ShutDown => pool = <<>>

\* C30: a get_connection ends with the timeout error only if the idle queue
\* holds no valid connection: on an open pool with a valid idle connection and
\* no other call in progress it returns that connection for every timeout >= 0,
\* timeout = 0 included.
C30_AtLeastOneAttempt ==
    [][\A t \in Threads :
          (/\ StepFrom(t, "g_loop")
           /\ pc'[t] = "idle"
           /\ outcome'[t] = "timeout"
           /\ ~closed)
             => ~\E c \in SeqToSet(pool) : cstate[c] = "open" /\ ~IsStale(c)]_vars

\* C23: a close_all of either registry ends normally, leaves its registry
\* empty and has closed every pool it removes from the registry, also when a
\* get_*_db call for a name not yet registered runs concurrently.
C23_RegistryCloseAll ==
    [][\A t \in Threads :
          (rpc[t] \in {"pc_close", "dc_next", "dc_clear"} /\ rpc'[t] = "idle") =>
             /\ routcome'[t] = "shutdown"
             /\ rpc[t] = "pc_close" =>
                   /\ \A n \in Names : pdm_instances'[n] = NoPool
                   /\ \A n \in Names :
                         pdm_instances[n] # NoPool =>
                            rpool_closed'[pdm_instances[n]]
             /\ rpc[t] = "dc_clear" =>
                   /\ \A n \in Names : dm_pooled_instances'[n] = NoPool
                   /\ \A n \in Names :
                         dm_pooled_instances[n] # NoPool =>
                            rpool_closed'[dm_pooled_instances[n]]]_vars

\* C22: every get_stats call, run concurrently with get_connection,
\* return_connection and close_all, returns the values that
\* _active_connections, the size of the idle queue and _closed had together at
\* one instant during the call (the instant it read the queue size); hence a
\* snapshot of an open pool has
\* available_connections <= active_connections <= max_connections.
C22_StatsUntorn ==
    [][\A t \in Threads :
          StepFrom(t, "s_closed") =>
             LET d == ReturnedStats(t)
             IN  /\ pc'[t] = "idle" /\ outcome'[t] = "stats"
                 /\ <<d.active_connections, d.available_connections,
                      d.pool_closed>> = d.at
                 /\ ~d.pool_closed =>
                       /\ d.available_connections <= d.active_connections
                       /\ d.active_connections <= MaxConnections]_vars

\* C22 witness: a get_stats call on an open pool has read the counter and the
\* queue size and is about to return, while another thread, stopped at the
\* decrement of a discard, is waiting for the lock.
C22_Witness ==
    \E t, u \in Threads :
        /\ pc[t] = "s_closed"
        /\ lock = t
        /\ ~closed
        /\ stats[t].active_connections > 0
        /\ pc[u] \in {"g_decr", "r_decr"}

\* C29: with threads concurrently inside the registry get and close_all,
\* get_connection, return_connection, get_stats and the pool's close_all, a
\* thread that holds the pool lock is never blocked; a thread that holds the
\* registry lock is blocked only while it waits for the pool lock held by
\* another thread (so no set of threads wait for one another); and every lock
\* that is held is eventually released.
C29_DeadlockFree ==
    /\ [](\A t \in Threads : lock = t => ENABLED LocksStep(t))
    /\ [](\A t \in Threads :
            pdm_lock = t =>
               \/ ENABLED LocksStep(t)
               \/ pc[t] = "c_lock" /\ lock \notin {NoThread, t})
    /\ []<>(lock = NoThread)
    /\ []<>(pdm_lock = NoThread)

\* C29 witness: a thread holds the registry lock inside
\* PooledDatabaseManager.close_all and waits for the pool lock, which another
\* thread holds while it backs off inside get_connection.
C29_Witness ==
    \E t, u \in Threads :
        /\ t # u
        /\ pdm_lock = t
        /\ pc[t] = "c_lock"
        /\ lock = u
        /\ pc[u] = "g_sleep"

====
